---- MODULE Spec2Model ----
(***************************************************************************)
(* Model of listeners/events/app_home_opened.py: the callback that renders *)
(* the App Home tab.  One invocation is a short linear run                 *)
(*   Start -> GetState -> Select -> SaveDefault -> Publish -> Return       *)
(* whose steps are cut at the calls to the external collaborators (the     *)
(* provider registry, the Redis user-state store, the Slack client).       *)
(*                                                                         *)
(* Python values: a str is a sequence of one-character strings; None is    *)
(* the empty tuple and a present value x is <<x>> (an "optional").         *)
(***************************************************************************)
EXTENDS Naturals, Sequences, FiniteSets

VARIABLES
    registry,        \* get_available_providers(): ordered (model_name, info) items
    redis_url,       \* os.environ.get("REDIS_URL")
    genai_api_url,   \* os.environ.get("GENAI_API_URL")
    store,           \* the user-state store: user id -> saved (provider, model)
    pc,              \* position of the callback
    event,           \* the event being handled
    options,         \* local: options
    provider,        \* local: provider
    model,           \* local: model
    initial_option,  \* local: initial_option
    getCalls,        \* calls of get_redis_user_state made by this invocation
    setCalls,        \* calls of set_redis_user_state made by this invocation
    publishCalls,    \* calls of client.views_publish made by this invocation
    result,          \* how the invocation ended: "none", "returned", "raised"
    storeAtEntry,    \* history: the store when the invocation started
    obs,             \* history: what a "read raised" / "read empty" run did
    savedView        \* history: the view published by the run that saved the default

vars == <<registry, redis_url, genai_api_url, store, pc, event, options,
          provider, model, initial_option, getCalls, setCalls, publishCalls,
          result, storeAtEntry, obs, savedView>>

---------------------------------------------------------------------------
(* Bounds *)

\* longest provider registry considered
MaxRegistry == 3

---------------------------------------------------------------------------
(* Python values *)

None == <<>>

Some(x) == <<x>>

\* bool(x) for x an optional str: None and "" are falsy
Truthy(x) == x # None /\ x[1] # <<>>

\* bool(x) for x an optional list: None and [] are falsy
TruthyList(x) == x # None /\ x[1] # <<>>

\* str.startswith
StartsWith(s, prefix) ==
    /\ Len(prefix) <= Len(s)
    /\ SubSeq(s, 1, Len(prefix)) = prefix

\* the cased ASCII letters, capitals and their lowercase forms in step
AsciiUppercase ==
    <<"A","B","C","D","E","F","G","H","I","J","K","L","M",
      "N","O","P","Q","R","S","T","U","V","W","X","Y","Z">>

AsciiLowercase ==
    <<"a","b","c","d","e","f","g","h","i","j","k","l","m",
      "n","o","p","q","r","s","t","u","v","w","x","y","z">>

\* the lowercase form of each capital
LowerOf ==
    [c \in {AsciiUppercase[i] : i \in 1..Len(AsciiUppercase)} |->
        AsciiLowercase[CHOOSE i \in 1..Len(AsciiUppercase) : AsciiUppercase[i] = c]]

\* str.lower on one character: a capital becomes its lowercase letter,
\* every other character is kept
LowerChar(c) == IF c \in DOMAIN LowerOf THEN LowerOf[c] ELSE c

\* str.lower
Lower(s) == [i \in 1..Len(s) |-> LowerChar(s[i])]

\* list(filter(pred, xs)) for pred = "value starts with prefix"
RECURSIVE FilterStartsWith(_, _)
FilterStartsWith(xs, prefix) ==
    IF xs = <<>> THEN <<>>
    ELSE IF StartsWith(Head(xs).value, prefix)
         THEN <<Head(xs)>> \o FilterStartsWith(Tail(xs), prefix)
         ELSE FilterStartsWith(Tail(xs), prefix)

\* any(opt["value"].startswith(prefix) for opt in xs)
AnyStartsWith(xs, prefix) ==
    \E i \in 1..Len(xs) : StartsWith(xs[i].value, prefix)

---------------------------------------------------------------------------
(* String literals of the callback *)

GenaiAgent == <<"g","e","n","a","i","-","a","g","e","n","t">>

Genai == <<"g","e","n","a","i">>

NullValue == <<"n","u","l","l">>

SelectAProvider ==
    <<"S","e","l","e","c","t"," ","a"," ","p","r","o","v","i","d","e","r">>

SelectAProviderFallback ==
    SelectAProvider \o <<" ","(","G","e","n","A","I"," ","u","s","e","d"," ",
                         "a","s"," ","f","a","l","l","b","a","c","k",")">>

---------------------------------------------------------------------------
(* The collaborators' data *)

Users == {"U1", "U2"}

Tabs == {"home", "messages"}

Url == <<"r","e","d","i","s",":","/","/","h">>

\* values os.environ.get can return: unset, set to "", set to a URL
EnvValues == {None, Some(<<>>), Some(Url)}

Gpt4 == <<"g","p","t","-","4">>

Gpt4o == Gpt4 \o <<"o">>

GenaiAgentV2 == GenaiAgent \o <<"-","v","2">>

OpenAI == <<"O","p","e","n","A","I">>

GenAI == <<"G","e","n","A","I">>

\* items the registry can hold: (model_name, {"name": ..., "provider": ...})
RegistryPool ==
    { [model_name |-> GenaiAgent,   name |-> <<"A","g","e","n","t">>,         provider |-> GenAI],
      [model_name |-> GenaiAgentV2, name |-> <<"A","g","e","n","t"," ","2">>, provider |-> GenAI],
      [model_name |-> Gpt4,         name |-> <<"G","P","T","-","4">>,         provider |-> OpenAI],
      [model_name |-> Gpt4o,        name |-> <<"G","P","T","-","4","o">>,     provider |-> OpenAI] }

\* a dict's items: any order, keys (model names) distinct
Registries ==
    { r \in UNION { [1..n -> RegistryPool] : n \in 0..MaxRegistry } :
        \A i, j \in 1..Len(r) : r[i].model_name = r[j].model_name => i = j }

NoState == [provider |-> None, model |-> None]

DefaultState == [provider |-> Some(Genai), model |-> Some(GenaiAgent)]

\* what the store can hold for a user
StoredStates ==
    { NoState,
      [provider |-> Some(<<>>), model |-> Some(Gpt4)],
      [provider |-> Some(Lower(OpenAI)), model |-> Some(<<>>)],
      [provider |-> Some(Lower(OpenAI)), model |-> Some(Gpt4)],
      DefaultState }

NoEvent == [tab |-> "none", user |-> "none"]

NoObs == [kind |-> "none"]

---------------------------------------------------------------------------
(* The callback *)

\* lines 24-30: one option per registry item, in registry order
Option(item) ==
    [text  |-> [type  |-> "plain_text",
                text  |-> item.name \o <<" ", "(">> \o item.provider \o <<")">>,
                emoji |-> TRUE],
     value |-> item.model_name \o <<" ">> \o Lower(item.provider)]

BuildOptions(reg) == [i \in 1..Len(reg) |-> Option(reg[i])]

\* lines 73-78 and 80-85: the placeholder options
Placeholder(label) ==
    [text  |-> [type |-> "plain_text", text |-> label, emoji |-> TRUE],
     value |-> NullValue]

\* lines 56 and 72: the default model is configured and available
GenaiAvailable(opts) ==
    Truthy(genai_api_url) /\ AnyStartsWith(opts, GenaiAgent)

\* variant: the placeholder never carries the fallback label
WithPlaceholderPlain(opts, initial) ==
    IF ~TruthyList(initial)
    THEN Append(opts, Placeholder(SelectAProvider))
    ELSE opts

\* variant: the placeholder is appended whether or not an option was selected
WithPlaceholderAlways(opts, initial) ==
    IF GenaiAvailable(opts)
    THEN Append(opts, Placeholder(SelectAProviderFallback))
    ELSE Append(opts, Placeholder(SelectAProvider))

\* lines 69-85: options after the "no option was selected" block
WithPlaceholder(opts, initial) ==
    IF ~TruthyList(initial)
    THEN IF GenaiAvailable(opts)
         THEN Append(opts, Placeholder(SelectAProviderFallback))
         ELSE Append(opts, Placeholder(SelectAProvider))
    ELSE opts

\* variant: initial_option[-1] instead of initial_option[0]
InitialOptionExprLast(initial, opts) ==
    IF TruthyList(initial) THEN Some(initial[1][Len(initial[1])])
    ELSE IF opts = <<>> THEN None
    ELSE Some(opts[Len(opts)])

\* line 112: initial_option[0] if initial_option else options[-1];
\* None stands for the IndexError of an empty list
InitialOptionExpr(initial, opts) ==
    IF TruthyList(initial) THEN Some(initial[1][1])
    ELSE IF opts = <<>> THEN None
    ELSE Some(opts[Len(opts)])

\* variant: the tab check is missing
IsHomeTabAny(tab) == TRUE

\* line 17: the event is for the home tab
IsHomeTab(tab) == tab = "home"

\* lines 42-44: `except Exception` around get_redis_user_state
CaughtGet == TRUE

\* variant: the write is not wrapped in try/except
CaughtSetMissing == FALSE

\* lines 64-66: `except Exception` around set_redis_user_state
CaughtSet == TRUE

\* lines 122-124: `except Exception` around client.views_publish
CaughtPublish == TRUE

\* variant: the exception handler selects the default itself
StateAfterReadDefaultOnError(outcome, saved) ==
    IF outcome = "ok" THEN saved ELSE DefaultState

\* lines 39-44: provider, model after the try block; on an exception the
\* assignment never happens and both keep their None
StateAfterRead(outcome, saved) ==
    IF outcome = "ok" THEN saved ELSE NoState

\* variant: the default is written back without checking REDIS_URL
SaveWantedNoRedisCheck(initial, url) == TruthyList(initial)

\* line 59: the default is written back only if Redis is available
SaveWanted(initial, url) == TruthyList(initial) /\ Truthy(url)

\* variant: provider and model passed in the wrong order
SetArgsSwapped(user) == [user_id |-> user, provider |-> GenaiAgent, model |-> Genai]

\* variant: the default is saved with an empty provider
SetArgsNoProvider(user) == [user_id |-> user, provider |-> <<>>, model |-> GenaiAgent]

\* line 62: the arguments of set_redis_user_state
SetArgs(user) == [user_id |-> user, provider |-> Genai, model |-> GenaiAgent]

\* set_redis_user_state: the store after a successful write
StoreAfterSet(st, args) ==
    [st EXCEPT ![args.user_id] =
        [provider |-> Some(args.provider), model |-> Some(args.model)]]

\* history: what an invocation did, without the user id
Observation(kind, calls, sets) ==
    [kind    |-> kind,
     views   |-> [i \in 1..Len(calls) |->
                    [initial_option |-> calls[i].initial_option,
                     options        |-> calls[i].options]],
     writes  |-> [i \in 1..Len(sets) |->
                    [provider |-> sets[i].provider, model |-> sets[i].model]]]

\* history: how the store read of this invocation ended
ReadKind ==
    IF getCalls = <<>> THEN "not_called"
    ELSE IF getCalls[1].outcome = "raise" THEN "raised"
    ELSE IF ~(Truthy(getCalls[1].returned.provider) /\ Truthy(getCalls[1].returned.model))
         THEN IF getCalls[1].returned = NoState THEN "none" ELSE "empty"
    ELSE "saved"

Init ==
    /\ registry \in Registries
    /\ redis_url \in EnvValues
    /\ genai_api_url \in EnvValues
    /\ store = [u \in Users |-> NoState]
    /\ pc = "idle"
    /\ event = NoEvent
    /\ options = <<>>
    /\ provider = None
    /\ model = None
    /\ initial_option = None
    /\ getCalls = <<>>
    /\ setCalls = <<>>
    /\ publishCalls = <<>>
    /\ result = "none"
    /\ storeAtEntry = store
    /\ obs = [k \in {"raised", "none"} |-> NoObs]
    /\ savedView = [u \in Users |-> None]

\* lines 16-38: the tab check, the options list, the locals, the Redis check
Start(tab, user) ==
    /\ pc = "idle"
    /\ event' = [tab |-> tab, user |-> user]
    /\ storeAtEntry' = store
    /\ IF ~IsHomeTab(tab)
       THEN /\ pc' = "done"
            /\ result' = "returned"
            /\ UNCHANGED options
       ELSE /\ options' = BuildOptions(registry)
            /\ pc' = IF Truthy(redis_url) THEN "get_state" ELSE "select"
            /\ UNCHANGED result
    /\ UNCHANGED <<registry, redis_url, genai_api_url, store, provider, model,
                   initial_option, getCalls, setCalls, publishCalls, obs, savedView>>

\* lines 39-44: get_redis_user_state(user_id, True, redis_url)
GetState(outcome) ==
    /\ pc = "get_state"
    /\ getCalls' = Append(getCalls,
                     [user_id |-> event.user, outcome |-> outcome,
                      returned |-> StateAfterRead(outcome, store[event.user])])
    /\ IF outcome = "raise" /\ ~CaughtGet
       THEN /\ pc' = "done"
            /\ result' = "raised"
            /\ UNCHANGED <<provider, model>>
       ELSE /\ provider' = StateAfterRead(outcome, store[event.user]).provider
            /\ model' = StateAfterRead(outcome, store[event.user]).model
            /\ pc' = "select"
            /\ UNCHANGED result
    /\ UNCHANGED <<registry, redis_url, genai_api_url, store, event, options,
                   initial_option, setCalls, publishCalls, storeAtEntry, obs, savedView>>

\* lines 46-59: restore the saved model, or fall back to the default
Select ==
    /\ pc = "select"
    /\ IF Truthy(provider) /\ Truthy(model)
       THEN /\ initial_option' = Some(FilterStartsWith(options, model[1]))
            /\ pc' = "build"
       ELSE IF GenaiAvailable(options)
            THEN /\ initial_option' = Some(FilterStartsWith(options, GenaiAgent))
                 /\ pc' = IF SaveWanted(initial_option', redis_url)
                          THEN "save" ELSE "build"
            ELSE /\ pc' = "build"
                 /\ UNCHANGED initial_option
    /\ UNCHANGED <<registry, redis_url, genai_api_url, store, event, options,
                   provider, model, getCalls, setCalls, publishCalls, result,
                   storeAtEntry, obs, savedView>>

\* lines 60-66: set_redis_user_state(user_id, "genai", "genai-agent", redis_url)
SaveDefault(outcome) ==
    /\ pc = "save"
    /\ setCalls' = Append(setCalls,
                     [user_id  |-> SetArgs(event.user).user_id,
                      provider |-> SetArgs(event.user).provider,
                      model    |-> SetArgs(event.user).model,
                      outcome  |-> outcome])
    /\ store' = IF outcome = "ok" THEN StoreAfterSet(store, SetArgs(event.user))
                ELSE store
    /\ IF outcome = "raise" /\ ~CaughtSet
       THEN pc' = "done" /\ result' = "raised"
       ELSE pc' = "build" /\ UNCHANGED result
    /\ UNCHANGED <<registry, redis_url, genai_api_url, event, options, provider,
                   model, initial_option, getCalls, publishCalls, storeAtEntry,
                   obs, savedView>>


\* lines 68-124: the placeholder option, the view, client.views_publish
Publish(outcome) ==
    /\ pc = "build"
    /\ options' = WithPlaceholder(options, initial_option)
    /\ IF InitialOptionExpr(initial_option, options') = None
       THEN \* the view expression raised inside the try block
            /\ UNCHANGED publishCalls
            /\ result' = IF CaughtPublish THEN "returned" ELSE "raised"
       ELSE /\ publishCalls' = Append(publishCalls,
                 [user_id        |-> event.user,
                  initial_option |-> InitialOptionExpr(initial_option, options')[1],
                  options        |-> options',
                  action_id      |-> "pick_a_provider",
                  outcome        |-> outcome])
            /\ result' = IF outcome = "raise" /\ ~CaughtPublish
                         THEN "raised" ELSE "returned"
    /\ pc' = "done"
    /\ UNCHANGED <<registry, redis_url, genai_api_url, store, event, provider,
                   model, initial_option, getCalls, setCalls, storeAtEntry,
                   obs, savedView>>

\* history: this invocation wrote the default and the write returned
SavedNow == setCalls # <<>> /\ setCalls[1].outcome = "ok"

\* the callback has returned; the next event can be delivered
Return ==
    /\ pc = "done"
    /\ pc' = "idle"
    /\ event' = NoEvent
    /\ options' = <<>>
    /\ provider' = None
    /\ model' = None
    /\ initial_option' = None
    /\ getCalls' = <<>>
    /\ setCalls' = <<>>
    /\ publishCalls' = <<>>
    /\ result' = "none"
    /\ storeAtEntry' = store
    /\ obs' = IF event.tab = "home" /\ ReadKind \in DOMAIN obs
              THEN [obs EXCEPT ![ReadKind] =
                       Observation(ReadKind, publishCalls, setCalls)]
              ELSE obs
    /\ savedView' = IF SavedNow /\ savedView[event.user] = None
                    THEN [savedView EXCEPT ![event.user] =
                             Some(Observation("saved", publishCalls, <<>>).views)]
                    ELSE savedView
    /\ UNCHANGED <<registry, redis_url, genai_api_url, store>>

\* another writer of the store (the provider picker, an expiry) changes a
\* user's saved state between two invocations
StoreChanged(user, saved) ==
    /\ pc = "idle"
    /\ store[user] # saved
    /\ store' = [store EXCEPT ![user] = saved]
    /\ storeAtEntry' = store'
    /\ savedView' = [savedView EXCEPT ![user] = None]
    /\ UNCHANGED <<registry, redis_url, genai_api_url, pc, event, options,
                   provider, model, initial_option, getCalls, setCalls,
                   publishCalls, result, obs>>

Outcomes == {"ok", "raise"}

Next ==
    \/ \E tab \in Tabs, user \in Users : Start(tab, user)
    \/ \E outcome \in Outcomes : GetState(outcome)
    \/ Select
    \/ \E outcome \in Outcomes : SaveDefault(outcome)
    \/ \E outcome \in Outcomes : Publish(outcome)
    \/ Return
    \/ \E user \in Users, saved \in StoredStates : StoreChanged(user, saved)

Spec == Init /\ [][Next]_vars

\* the store answers every read with what was last written and has no
\* other writer
NextStable ==
    \/ \E tab \in Tabs, user \in Users : Start(tab, user)
    \/ GetState("ok")
    \/ Select
    \/ \E outcome \in Outcomes : SaveDefault(outcome)
    \/ \E outcome \in Outcomes : Publish(outcome)
    \/ Return

SpecStable == Init /\ [][NextStable]_vars

---------------------------------------------------------------------------
(* Vocabulary of the properties *)

\* the callback has finished handling a home-tab event
HomeDone == pc = "done" /\ event.tab = "home"

\* the options the registry yields, before any placeholder
RegistryOptions == BuildOptions(registry)

\* no saved preference was obtained: Redis is off, the read raised, or it
\* returned an empty provider or model
NoPreference == ReadKind \in {"not_called", "raised", "none", "empty"}

\* the first registry option whose value starts with "genai-agent"
FirstGenaiOption ==
    LET i == CHOOSE k \in 1..Len(RegistryOptions) :
                /\ StartsWith(RegistryOptions[k].value, GenaiAgent)
                /\ \A j \in 1..(k - 1) :
                      ~StartsWith(RegistryOptions[j].value, GenaiAgent)
    IN  RegistryOptions[i]

\* the default is configured and the registry offers it
DefaultOffered ==
    Truthy(genai_api_url) /\ AnyStartsWith(RegistryOptions, GenaiAgent)

IsPlaceholder(opt) == opt.value = NullValue

---------------------------------------------------------------------------
(* C1 *)

\* C1: a home-tab run whose store read raised publishes the same view
\* (options, initial_option) and makes the same store write (or none) as a
\* home-tab run whose read returned no provider and no model, whatever the
\* registry and the environment are.
C1_ReadFailureIsNoPreference ==
    (obs["raised"] # NoObs /\ obs["none"] # NoObs) =>
        /\ obs["raised"].views = obs["none"].views
        /\ obs["raised"].writes = obs["none"].writes

\* both kinds of run have happened, and they wrote the default
C1_Witness ==
    /\ obs["raised"] # NoObs
    /\ obs["none"] # NoObs
    /\ obs["raised"].writes # <<>>
    /\ obs["raised"].views # <<>>

---------------------------------------------------------------------------
(* C2 *)

\* C2: no exception leaves the callback, whatever the three external calls
\* do, and the initial option of the view (initial_option[0] or
\* options[-1]) is defined whenever the view is built.
C2_NoPropagation ==
    /\ result # "raised"
    /\ pc = "done" => result = "returned"
    /\ pc = "build" =>
         InitialOptionExpr(initial_option,
                           WithPlaceholder(options, initial_option)) # None

\* a run in which the read, the write and the publish all raised
C2_Witness ==
    /\ HomeDone
    /\ result = "returned"
    /\ getCalls # <<>> /\ getCalls[1].outcome = "raise"
    /\ setCalls # <<>> /\ setCalls[1].outcome = "raise"
    /\ publishCalls # <<>> /\ publishCalls[1].outcome = "raise"

---------------------------------------------------------------------------
(* C3 *)

\* C3: one invocation calls views_publish exactly once for a home-tab
\* event and never otherwise, whatever failed, and calls the store read
\* and the store write at most once each.
C3_CallCounts ==
    /\ Len(getCalls) <= 1
    /\ Len(setCalls) <= 1
    /\ Len(publishCalls) <= 1
    /\ pc = "done" =>
         Len(publishCalls) = (IF event.tab = "home" THEN 1 ELSE 0)

\* a home-tab run whose write failed and whose publish failed
C3_Witness ==
    /\ HomeDone
    /\ getCalls # <<>> /\ getCalls[1].outcome = "ok"
    /\ setCalls # <<>> /\ setCalls[1].outcome = "raise"
    /\ Len(publishCalls) = 1 /\ publishCalls[1].outcome = "raise"

---------------------------------------------------------------------------
(* C4 *)

\* C4: with no saved preference, GENAI_API_URL set and a registry option
\* whose value starts with "genai-agent", the published initial option is
\* the first such option in registry order and no "null" placeholder is
\* appended.
C4_FallbackToDefault ==
    (HomeDone /\ NoPreference /\ DefaultOffered) =>
        /\ Len(publishCalls) = 1
        /\ publishCalls[1].initial_option = FirstGenaiOption
        /\ publishCalls[1].options = RegistryOptions
        /\ \A k \in 1..Len(publishCalls[1].options) :
              ~IsPlaceholder(publishCalls[1].options[k])

\* the fallback ran on a registry with two genai-agent options, the
\* plain one not first
C4_Witness ==
    /\ HomeDone /\ NoPreference /\ DefaultOffered
    /\ Len(FilterStartsWith(RegistryOptions, GenaiAgent)) = 2
    /\ registry[1].model_name # GenaiAgent
    /\ publishCalls # <<>>

---------------------------------------------------------------------------
(* C5 *)

\* C5: when the store returns a non-empty provider and model and the
\* registry has an entry with exactly that model name, the published
\* initial option is the option built for that entry.
C5_RestoreSavedChoice ==
    (HomeDone /\ ReadKind = "saved") =>
        \A i \in 1..Len(registry) :
            registry[i].model_name = model[1] =>
                /\ Len(publishCalls) = 1
                /\ publishCalls[1].initial_option = Option(registry[i])

---------------------------------------------------------------------------
(* C6 *)

\* C6 (as stated): the store after the callback returns is the store
\* before the call.
C6_StoreUnchanged ==
    pc = "done" => store = storeAtEntry

\* C6 (amended): the callback changes the store only by saving the
\* default: after it returns the store is as before the call, except
\* that a set_redis_user_state call that returned has set the entry of
\* the event's user to ("genai", "genai-agent").
C6_StoreChangedOnlyBySavingDefault ==
    pc # "idle" =>
        IF SavedNow
        THEN store = [storeAtEntry EXCEPT ![event.user] = DefaultState]
        ELSE store = storeAtEntry

\* a run that changed the user's entry
C6_Witness ==
    /\ pc = "done"
    /\ SavedNow
    /\ store # storeAtEntry

---------------------------------------------------------------------------
(* C7 *)

\* C7 (as stated): when the saved model matches no option and the default
\* is offered, the published initial option is the genai-agent option.
C7_DefaultWhenNoMatch ==
    (/\ HomeDone /\ ReadKind = "saved"
     /\ ~AnyStartsWith(RegistryOptions, model[1])
     /\ DefaultOffered) =>
        /\ Len(publishCalls) = 1
        /\ publishCalls[1].initial_option = FirstGenaiOption

\* C7 (amended): when the saved model matches no option and the default
\* is offered, the published initial option is the "null" placeholder
\* labelled "Select a provider (GenAI used as fallback)", appended after
\* the registry's options.
C7_PlaceholderWhenNoMatch ==
    (/\ HomeDone /\ ReadKind = "saved"
     /\ ~AnyStartsWith(RegistryOptions, model[1])
     /\ DefaultOffered) =>
        /\ Len(publishCalls) = 1
        /\ publishCalls[1].initial_option = Placeholder(SelectAProviderFallback)
        /\ publishCalls[1].options =
              Append(RegistryOptions, Placeholder(SelectAProviderFallback))

\* a saved model that matches nothing while the default is offered
C7_Witness ==
    /\ HomeDone /\ ReadKind = "saved"
    /\ ~AnyStartsWith(RegistryOptions, model[1])
    /\ DefaultOffered
    /\ publishCalls # <<>>

---------------------------------------------------------------------------
(* C8 *)

\* C8: set_redis_user_state is called iff the event is for the home tab,
\* REDIS_URL is set (non-empty), no saved preference was obtained,
\* GENAI_API_URL is set (non-empty) and some option's value starts with
\* "genai-agent"; the call writes (user of the event, "genai",
\* "genai-agent"); without a call the store is left unchanged.
C8_WriteOnlyToSaveDefault ==
    pc = "done" =>
        /\ setCalls # <<>> <=>
              /\ event.tab = "home"
              /\ Truthy(redis_url)
              /\ ReadKind \in {"raised", "none", "empty"}
              /\ DefaultOffered
        /\ setCalls # <<>> =>
              /\ Len(setCalls) = 1
              /\ setCalls[1].user_id = event.user
              /\ setCalls[1].provider = Genai
              /\ setCalls[1].model = GenaiAgent
        /\ setCalls = <<>> => store = storeAtEntry

\* the default was saved after a read that returned an empty provider
C8_Witness ==
    /\ pc = "done"
    /\ setCalls # <<>>
    /\ ReadKind = "empty"

---------------------------------------------------------------------------
(* C9 *)

\* C9: every published view is well formed: the options are not empty and
\* contain the initial option; they are the registry's options in order,
\* followed by a "null" placeholder exactly when no registry option was
\* selected, and then the placeholder is the initial option; the
\* placeholder with the fallback label appears only when a saved provider
\* and model were retrieved and matched no option.
C9_WellFormedView ==
    \A c \in 1..Len(publishCalls) :
        LET call == publishCalls[c]
            last == call.options[Len(call.options)]
        IN  /\ call.options # <<>>
            /\ \E k \in 1..Len(call.options) : call.options[k] = call.initial_option
            /\ \/ call.options = RegistryOptions
               \/ /\ Len(call.options) = Len(RegistryOptions) + 1
                  /\ SubSeq(call.options, 1, Len(RegistryOptions)) = RegistryOptions
                  /\ IsPlaceholder(last)
            /\ \A k \in 1..Len(RegistryOptions) : ~IsPlaceholder(RegistryOptions[k])
            /\ IsPlaceholder(last) <=> ~TruthyList(initial_option)
            /\ IsPlaceholder(last) => call.initial_option = last
            /\ ~IsPlaceholder(last) =>
                  \E k \in 1..Len(RegistryOptions) :
                      RegistryOptions[k] = call.initial_option
            /\ last.text.text = SelectAProviderFallback =>
                  /\ ReadKind = "saved"
                  /\ ~AnyStartsWith(RegistryOptions, model[1])

\* a view with the fallback placeholder was published
C9_Witness ==
    /\ Len(publishCalls) = 1
    /\ publishCalls[1].initial_option = Placeholder(SelectAProviderFallback)
    /\ Len(publishCalls[1].options) >= 2

---------------------------------------------------------------------------
(* C10 *)

\* C10: with a store that returns what was last written, once a home-tab
\* run has saved the default for a user, every later home-tab run for
\* that user publishes the same options and the same initial option as
\* that run and writes nothing to the store.
C10_SavedDefaultRoundTrips ==
    (HomeDone /\ savedView[event.user] # None) =>
        /\ Observation("saved", publishCalls, <<>>).views = savedView[event.user][1]
        /\ setCalls = <<>>

\* a later home-tab run of a user whose default was saved, on a registry
\* with more than one genai-agent option
C10_Witness ==
    /\ HomeDone
    /\ savedView[event.user] # None
    /\ ReadKind = "saved"
    /\ Len(publishCalls) = 1
    /\ Len(FilterStartsWith(RegistryOptions, GenaiAgent)) = 2

====
